---- MODULE Spec2Model ----
(***************************************************************************)
(* Arboric: the request-authorization pipeline of the GraphQL proxy.       *)
(*                                                                         *)
(* Three specifications share this module:                                 *)
(*   SpecAbac  draws a PDP and a Request from bounded sets and applies     *)
(*             PDP::allows / Policy::allows / Policy::matches to them;     *)
(*   SpecFunctions draws the arguments of one function of graphql::Pattern,*)
(*             graphql::FieldPattern, abac::Rule or abac::MatchAttribute   *)
(*             from bounded sets and applies the function to them;         *)
(*   Spec      runs ProxyService::call for a set of concurrent handlers    *)
(*             over one shared ListenerContext.                            *)
(*                                                                         *)
(* Strings whose characters the code inspects (field names, field          *)
(* patterns, claim values, the Authorization header) are sequences of      *)
(* one-character strings.  Strings that are only compared for equality     *)
(* (claim names, methods, content types) are plain strings.                *)
(***************************************************************************)
EXTENDS Integers, Sequences, FiniteSets, TLC

VARIABLES
    inPdp,      \* SpecAbac: the PDP under evaluation (abac::PDP)
    inReq,      \* SpecAbac: the crate::Request under evaluation
    out,        \* SpecAbac: results of the evaluation, NoOut before it ran
    context,    \* Spec: the shared ListenerContext
    handlers,   \* Spec: per handler, the request and the position in call/do_post/do_get
    arg,        \* SpecFunctions: the function applied and its arguments
    ret         \* SpecFunctions: what the function returned, NoRet before it ran

vars == <<inPdp, inReq, out, context, handlers, arg, ret>>

(***************************************************************************)
(* Bounds                                                                  *)
(***************************************************************************)
MaxRules == 3
MaxPolicies == 2
MaxLen == 3         \* SpecFunctions: characters of a drawn string
MaxItems == 2       \* SpecFunctions: selections of a drawn operation

(***************************************************************************)
(* Character strings                                                       *)
(***************************************************************************)
s_star == <<"*">>
s_hero == <<"h", "e", "r", "o">>
s_schema == <<"_", "_", "s", "c", "h", "e", "m", "a">>
s_createHero == <<"c", "r", "e", "a", "t", "e", "H", "e", "r", "o">>
s_1 == <<"1">>
s_2 == <<"2">>
s_admin == <<"a", "d", "m", "i", "n">>
s_user == <<"u", "s", "e", "r">>
s_user_admin == s_user \o <<",">> \o s_admin
s_user_sp_admin == s_user \o <<",", " ">> \o s_admin
s_foo == <<"f", "o", "o">>
s_bar == <<"b", "a", "r">>
s_foobar == s_foo \o s_bar
s_barfoo == s_bar \o s_foo
s_foo_star == s_foo \o s_star
s_star_foo_star == s_star \o s_foo \o s_star

s_query_colon == <<"q", "u", "e", "r", "y", ":">>
s_mutation_colon == <<"m", "u", "t", "a", "t", "i", "o", "n", ":">>

\* SeqsUpTo(S, n): the sequences over S of length at most n
SeqsUpTo(S, n) == UNION {[1..k -> S] : k \in 0..n}

\* str::starts_with
StartsWith(str, prefix) ==
    /\ Len(str) >= Len(prefix)
    /\ SubSeq(str, 1, Len(prefix)) = prefix

(***************************************************************************)
(* Three-valued outcome of an evaluation that can panic                    *)
(***************************************************************************)
T == "true"
F == "false"
PANIC == "panic"

(***************************************************************************)
(* graphql::FieldPattern and graphql::Pattern                              *)
(***************************************************************************)
\* The regex built from the pattern: every "*" stands for ".*", every other
\* character for itself.  RegexMatchesPrefix(p, s): the regex p matches some
\* prefix of s.
RECURSIVE RegexMatchesPrefix(_, _)
RegexMatchesPrefix(p, s) ==
    IF p = <<>> THEN TRUE
    ELSE IF Head(p) = "*"
         THEN \E k \in 0..Len(s) : RegexMatchesPrefix(Tail(p), SubSeq(s, k + 1, Len(s)))
         ELSE /\ s # <<>>
              /\ Head(s) = Head(p)
              /\ RegexMatchesPrefix(Tail(p), Tail(s))

\* Regex::is_match is a search: the regex may match at any offset of the name.
\* (The strings of this model hold letters, digits, "_", ":", "," and "*":
\* none but "*" means anything special to the regex.)
FieldPatternMatches(fp, name) ==
    \E i \in 1..(Len(name) + 1) : RegexMatchesPrefix(fp, SubSeq(name, i, Len(name)))

PatternAny == [kind |-> "Any", fp |-> <<>>]
PatternQuery(s) == [kind |-> "Query", fp |-> s]
PatternMutation(s) == [kind |-> "Mutation", fp |-> s]

\* Mutant of PatternParse: "*" is read as a bare field pattern
PatternParseNoAny(s) ==
    IF StartsWith(s, s_mutation_colon)
    THEN PatternMutation(SubSeq(s, 9 + 1, Len(s)))
    ELSE IF StartsWith(s, s_query_colon)
         THEN PatternQuery(SubSeq(s, 6 + 1, Len(s)))
         ELSE PatternQuery(s)

\* Pattern::parse: "*", then the prefix "mutation:", then the prefix
\* "query:", then the bare string; &pattern[9..] and &pattern[6..] are the
\* rest after the prefix
PatternParse(s) ==
    IF s = s_star
    THEN PatternAny
    ELSE IF StartsWith(s, s_mutation_colon)
         THEN PatternMutation(SubSeq(s, 9 + 1, Len(s)))
         ELSE IF StartsWith(s, s_query_colon)
              THEN PatternQuery(SubSeq(s, 6 + 1, Len(s)))
              ELSE PatternQuery(s)

\* Display for FieldPattern: write!(f, "{}", &s)
FieldPatternDisplay(fp) == fp

\* Mutant of PatternDisplay: a query pattern is written without its prefix
PatternDisplayBareQuery(pattern) ==
    CASE pattern.kind = "Any" -> s_star
      [] pattern.kind = "Query" -> FieldPatternDisplay(pattern.fp)
      [] pattern.kind = "Mutation" -> s_mutation_colon \o FieldPatternDisplay(pattern.fp)

\* Display for Pattern: "*", "query:{}", "mutation:{}"
PatternDisplay(pattern) ==
    CASE pattern.kind = "Any" -> s_star
      [] pattern.kind = "Query" -> s_query_colon \o FieldPatternDisplay(pattern.fp)
      [] pattern.kind = "Mutation" -> s_mutation_colon \o FieldPatternDisplay(pattern.fp)

\* selection_set.items.iter().any(|selection| match selection { Field(f) => fp.matches(f), _ => false })
AnyFieldMatches(fp, items) ==
    \E i \in 1..Len(items) :
        /\ items[i].kind = "Field"
        /\ FieldPatternMatches(fp, items[i].name)

\* Mutant of PatternMatches: the kind of the operation is not looked at
PatternMatchesAnyKind(pattern, op) ==
    CASE pattern.kind = "Any" -> TRUE
      [] pattern.kind = "Query" -> AnyFieldMatches(pattern.fp, op.items)
      [] pattern.kind = "Mutation" -> AnyFieldMatches(pattern.fp, op.items)

\* Pattern::matches: a subscription falls under `_ => false` of both arms
PatternMatches(pattern, op) ==
    CASE pattern.kind = "Any" -> TRUE
      [] pattern.kind = "Query" ->
            IF op.kind \in {"Query", "SelectionSet"}
            THEN AnyFieldMatches(pattern.fp, op.items)
            ELSE FALSE
      [] pattern.kind = "Mutation" ->
            IF op.kind = "Mutation"
            THEN AnyFieldMatches(pattern.fp, op.items)
            ELSE FALSE

(***************************************************************************)
(* abac::Rule                                                              *)
(***************************************************************************)
Allow(p) == [kind |-> "Allow", pattern |-> p]
Deny(p) == [kind |-> "Deny", pattern |-> p]

RuleMatches(rule, op) == PatternMatches(rule.pattern, op)

\* Mutant of RuleAllows: a Deny rule never has an opinion
RuleAllowsDenySilent(rule, op) ==
    IF rule.kind = "Allow"
    THEN IF PatternMatches(rule.pattern, op) THEN "Some(true)" ELSE "None"
    ELSE "None"

\* Option<bool>: "Some(true)", "Some(false)", "None"
RuleAllows(rule, op) ==
    IF rule.kind = "Allow"
    THEN IF PatternMatches(rule.pattern, op) THEN "Some(true)" ELSE "None"
    ELSE IF PatternMatches(rule.pattern, op) THEN "Some(false)" ELSE "None"

(***************************************************************************)
(* abac::MatchAttribute                                                    *)
(***************************************************************************)
AttrAny == [kind |-> "Any", claim |-> "", value |-> <<>>]
ClaimPresent(c) == [kind |-> "ClaimPresent", claim |-> c, value |-> <<>>]
ClaimEquals(c, v) == [kind |-> "ClaimEquals", claim |-> c, value |-> v]
ClaimIncludes(c, e) == [kind |-> "ClaimIncludes", claim |-> c, value |-> e]

\* serde_json::Value: a JSON string carries its characters, any other JSON
\* value (number, boolean, array, object, null) only its type.
JsonString(s) == [t |-> "string", s |-> s]
JsonNumber == [t |-> "number", s |-> <<>>]
JsonArray == [t |-> "array", s |-> <<>>]

\* str::split(","): the pieces between the commas, none trimmed
RECURSIVE Split(_, _)
Split(s, piece) ==
    IF s = <<>> THEN <<piece>>
    ELSE IF Head(s) = "," THEN <<piece>> \o Split(Tail(s), <<>>)
         ELSE Split(Tail(s), Append(piece, Head(s)))

SeqContains(seq, e) == \E i \in 1..Len(seq) : seq[i] = e

\* Mutant of AttrMatches: ClaimIncludes trims the pieces of the split
TrimLeft(s) == IF s # <<>> /\ Head(s) = " " THEN Tail(s) ELSE s

AttrMatchesTrimmed(attr, claims) ==
    CASE attr.kind = "ClaimPresent" ->
            IF attr.claim \in DOMAIN claims THEN T ELSE F
      [] attr.kind = "ClaimEquals" ->
            IF attr.claim \in DOMAIN claims
            THEN LET v == claims[attr.claim]
                 IN  IF v.t = "string" /\ v.s = attr.value THEN T ELSE F
            ELSE F
      [] attr.kind = "ClaimIncludes" ->
            IF attr.claim \in DOMAIN claims
            THEN LET v == claims[attr.claim]
                     pieces == Split(v.s, <<>>)
                 IN  IF v.t # "string" THEN PANIC
                     ELSE IF \E i \in 1..Len(pieces) : TrimLeft(pieces[i]) = attr.value
                          THEN T ELSE F
            ELSE F
      [] attr.kind = "Any" -> T

\* v.as_str().unwrap() panics when the claim's value is not a JSON string
AttrMatches(attr, claims) ==
    CASE attr.kind = "ClaimPresent" ->
            IF attr.claim \in DOMAIN claims THEN T ELSE F
      [] attr.kind = "ClaimEquals" ->
            IF attr.claim \in DOMAIN claims
            THEN LET v == claims[attr.claim]
                 IN  IF v.t = "string" /\ v.s = attr.value THEN T ELSE F
            ELSE F
      [] attr.kind = "ClaimIncludes" ->
            IF attr.claim \in DOMAIN claims
            THEN LET v == claims[attr.claim]
                 IN  IF v.t # "string" THEN PANIC
                     ELSE IF SeqContains(Split(v.s, <<>>), attr.value) THEN T ELSE F
            ELSE F
      [] attr.kind = "Any" -> T

(***************************************************************************)
(* abac::Policy                                                            *)
(***************************************************************************)
\* attributes.iter().all(|attribute| attribute.matches(request)): stops at the
\* first attribute that does not match, and unwinds at one that panics
RECURSIVE AllAttributesMatch(_, _)
AllAttributesMatch(attributes, claims) ==
    IF attributes = <<>> THEN T
    ELSE LET r == AttrMatches(Head(attributes), claims)
         IN  IF r = T THEN AllAttributesMatch(Tail(attributes), claims) ELSE r

PolicyMatches(policy, request) == AllAttributesMatch(policy.attributes, request.claims)

\* Mutant of RulesAll: the first rule that matches decides
RulesAllFirstMatchWins(rules, op) ==
    LET matching == {i \in 1..Len(rules) : RuleMatches(rules[i], op)}
    IN  IF matching = {} THEN TRUE
        ELSE LET first == CHOOSE i \in matching : \A j \in matching : i <= j
             IN  RuleAllows(rules[first], op) = "Some(true)"

\* Mutant of RulesAll: a rule that has no opinion counts as a denial
RulesAllNoOpinionDenies(rules, op) ==
    \A i \in 1..Len(rules) :
        IF RuleMatches(rules[i], op)
        THEN RuleAllows(rules[i], op) = "Some(true)"
        ELSE FALSE

\* Mutant of RulesAll: an empty rule list denies
RulesAllEmptyDenies(rules, op) ==
    /\ rules # <<>>
    /\ \A i \in 1..Len(rules) :
          IF RuleMatches(rules[i], op)
          THEN RuleAllows(rules[i], op) # "Some(false)"
          ELSE TRUE

\* Mutant of RulesAll: the last rule that matches decides
RulesAllLastMatchWins(rules, op) ==
    LET matching == {i \in 1..Len(rules) : RuleMatches(rules[i], op)}
    IN  IF matching = {} THEN TRUE
        ELSE LET last == CHOOSE i \in matching : \A j \in matching : j <= i
             IN  RuleAllows(rules[last], op) = "Some(true)"

\* Mutant of RulesAll: an operation needs an Allow rule that matches it
RulesAllNeedsAllow(rules, op) ==
    /\ \E i \in 1..Len(rules) : RuleAllows(rules[i], op) = "Some(true)"
    /\ \A i \in 1..Len(rules) : RuleAllows(rules[i], op) # "Some(false)"

\* self.rules.iter().all(|rule| if rule.matches(op) { rule.allows(op).unwrap_or(true) } else { true })
RulesAll(rules, op) ==
    \A i \in 1..Len(rules) :
        IF RuleMatches(rules[i], op)
        THEN LET b == RuleAllows(rules[i], op)
             IN  IF b = "None" THEN TRUE ELSE b = "Some(true)"
        ELSE TRUE

\* Mutant of DefinitionsAll: a definition that is no operation is passed over
DefinitionsAllSkipsFragments(rules, definitions) ==
    \A d \in 1..Len(definitions) :
        IF definitions[d].kind = "Fragment"
        THEN TRUE
        ELSE RulesAll(rules, definitions[d])

\* request.document.definitions.iter().all(|def| match def { Operation(op) => .., _ => false })
DefinitionsAll(rules, definitions) ==
    \A d \in 1..Len(definitions) :
        IF definitions[d].kind = "Fragment"
        THEN FALSE
        ELSE RulesAll(rules, definitions[d])

PolicyAllows(policy, request) ==
    LET m == AllAttributesMatch(policy.attributes, request.claims)
    IN  IF m = T
        THEN IF DefinitionsAll(policy.rules, request.document) THEN T ELSE F
        ELSE m

(***************************************************************************)
(* abac::PDP                                                               *)
(***************************************************************************)
\* policies.iter().filter(|p| p.matches(request)).any(|p| p.allows(request)):
\* lazy, in list order, stops at the first policy that allows
RECURSIVE FilterAny(_, _)
FilterAny(policies, request) ==
    IF policies = <<>> THEN F
    ELSE LET m == PolicyMatches(Head(policies), request)
         IN  IF m = PANIC THEN PANIC
             ELSE IF m = F THEN FilterAny(Tail(policies), request)
             ELSE LET a == PolicyAllows(Head(policies), request)
                  IN  IF a = F THEN FilterAny(Tail(policies), request) ELSE a

\* Mutant of PdpAllows: without policies, permit
PdpAllowsDefaultPermit(pdp, request) ==
    IF pdp = <<>> THEN T ELSE FilterAny(pdp, request)

PdpAllows(pdp, request) ==
    IF pdp = <<>> THEN F ELSE FilterAny(pdp, request)

(***************************************************************************)
(* Inputs of SpecAbac                                                      *)
(***************************************************************************)
Field(name) == [kind |-> "Field", name |-> name]
InlineFragment == [kind |-> "InlineFragment", name |-> <<>>]
FragmentSpread == [kind |-> "FragmentSpread", name |-> <<>>]

Query(items) == [kind |-> "Query", items |-> items]
Mutation(items) == [kind |-> "Mutation", items |-> items]
SelectionSet(items) == [kind |-> "SelectionSet", items |-> items]
Subscription(items) == [kind |-> "Subscription", items |-> items]
FragmentDefinition == [kind |-> "Fragment", items |-> <<>>]

\* Documents graphql_parser::parse_query can return (it never returns a
\* document without definitions)
doc_hero == <<SelectionSet(<<Field(s_hero)>>)>>                     \* {hero{name}}
doc_schema == <<SelectionSet(<<Field(s_schema)>>)>>                 \* {__schema{queryType{name}}}
doc_query_hero == <<Query(<<Field(s_hero)>>)>>                      \* query foo {hero{name}}
doc_mutation == <<Mutation(<<Field(s_createHero)>>)>>               \* mutation CreateHero {createHero(name:"x"){id}}
doc_hero_schema == <<SelectionSet(<<Field(s_hero), Field(s_schema)>>)>>
doc_two_ops == <<Query(<<Field(s_hero)>>), Mutation(<<Field(s_createHero)>>)>>
doc_inline == <<SelectionSet(<<InlineFragment>>)>>                  \* {... on Query {__schema{...}}}
doc_spread == <<Query(<<FragmentSpread>>), FragmentDefinition>>     \* query q {...f} fragment f on Query {hero}
doc_hero_fragment == <<SelectionSet(<<Field(s_hero)>>), FragmentDefinition>>
doc_empty_set == <<SelectionSet(<<>>)>>                             \* {}

DocPool ==
    {doc_hero, doc_schema, doc_query_hero, doc_mutation, doc_hero_schema, doc_two_ops,
     doc_inline, doc_spread, doc_hero_fragment, doc_empty_set}

claims_none == <<>>
claims_user == [sub |-> JsonString(s_1)]
claims_admin == [sub |-> JsonString(s_2), roles |-> JsonString(s_user_admin)]
claims_spaced == [sub |-> JsonString(s_2), roles |-> JsonString(s_user_sp_admin)]
claims_roles_array == [sub |-> JsonString(s_2), roles |-> JsonArray]
claims_sub_number == [sub |-> JsonNumber]

ClaimsPool ==
    {claims_none, claims_user, claims_admin, claims_spaced, claims_roles_array,
     claims_sub_number}

Request(claims, document) == [claims |-> claims, document |-> document]

Policy(attributes, rules) == [attributes |-> attributes, rules |-> rules]

\* Policy::new()
policy_new == Policy(<<>>, <<>>)
\* Policy::allow_any()
policy_allow_any == Policy(<<AttrAny>>, <<Allow(PatternAny)>>)
\* the two policies of test_pdp_complex_example
user_policy ==
    Policy(<<ClaimPresent("sub")>>,
           <<Allow(PatternQuery(s_star)), Deny(PatternMutation(s_star)),
             Deny(PatternQuery(s_schema))>>)
admin_policy ==
    Policy(<<ClaimIncludes("roles", s_admin)>>,
           <<Allow(PatternMutation(s_star)), Allow(PatternQuery(s_schema))>>)
policy_deny_any == Policy(<<AttrAny>>, <<Deny(PatternAny)>>)
policy_first_user ==
    Policy(<<ClaimIncludes("roles", s_user), ClaimEquals("sub", s_1)>>,
           <<Allow(PatternQuery(s_hero))>>)

PolicyPool ==
    {policy_new, policy_allow_any, user_policy, admin_policy, policy_deny_any,
     policy_first_user}

PatternPool ==
    {PatternAny, PatternQuery(s_star), PatternQuery(s_schema), PatternMutation(s_star)}

RulePool == {Allow(p) : p \in PatternPool} \cup {Deny(p) : p \in PatternPool}

\* One policy with every rule list up to MaxRules rules
RulePolicies ==
    {Policy(a, r) : a \in {<<>>, <<ClaimPresent("sub")>>}, r \in SeqsUpTo(RulePool, MaxRules)}

NoOut == [pdp |-> "none", matches |-> <<>>, allows |-> <<>>, ops |-> <<>>]
NoContext == [secret_key_bytes |-> "unset"]
NoHandlers == <<>>
NoArg == [fn |-> "none"]
NoRet == [fn |-> "none"]

InitAbac ==
    /\ \/ /\ inPdp \in {<<p>> : p \in RulePolicies}
          /\ inReq \in {Request(c, d) : c \in {claims_none, claims_user}, d \in DocPool}
       \/ /\ inPdp \in SeqsUpTo(PolicyPool, MaxPolicies)
          /\ inReq \in {Request(c, d) : c \in ClaimsPool, d \in DocPool}
    /\ out = NoOut
    /\ context = NoContext
    /\ handlers = NoHandlers
    /\ arg = NoArg
    /\ ret = NoRet

\* Apply PDP::allows to the request, and Policy::matches / Policy::allows of
\* every policy of the PDP, and the per-definition closure of Policy::allows
Evaluate ==
    /\ out = NoOut
    /\ out' = [pdp |-> PdpAllows(inPdp, inReq),
               matches |-> [i \in DOMAIN inPdp |-> PolicyMatches(inPdp[i], inReq)],
               allows |-> [i \in DOMAIN inPdp |-> PolicyAllows(inPdp[i], inReq)],
               ops |-> [i \in DOMAIN inPdp |->
                          [d \in DOMAIN inReq.document |->
                              DefinitionsAll(inPdp[i].rules, <<inReq.document[d]>>)]]]
    /\ UNCHANGED <<inPdp, inReq, context, handlers, arg, ret>>

NextAbac == Evaluate

SpecAbac == InitAbac /\ [][NextAbac]_vars

(***************************************************************************)
(* config::JwtSigningKeySource, Listener::new, Proxy::new                  *)
(***************************************************************************)
HexLower == <<"0", "1", "2", "3", "4", "5", "6", "7", "8", "9", "a", "b", "c", "d", "e", "f">>
HexUpper == <<"A", "B", "C", "D", "E", "F">>

\* The value of a hex digit, -1 for any other character
HexValue(c) ==
    IF \E i \in DOMAIN HexLower : HexLower[i] = c
    THEN (CHOOSE i \in DOMAIN HexLower : HexLower[i] = c) - 1
    ELSE IF \E i \in DOMAIN HexUpper : HexUpper[i] = c
         THEN 9 + (CHOOSE i \in DOMAIN HexUpper : HexUpper[i] = c)
         ELSE -1

\* crate::Result<Vec<u8>>
KeyErr == [ok |-> FALSE, bytes |-> <<>>]
KeyOk(bytes) == [ok |-> TRUE, bytes |-> bytes]

\* hex::decode: an odd length or a character that is no hex digit is an
\* error, the empty string decodes to no bytes
HexDecode(str) ==
    IF Len(str) % 2 # 0 \/ \E i \in DOMAIN str : HexValue(str[i]) < 0
    THEN KeyErr
    ELSE KeyOk([k \in 1..(Len(str) \div 2) |->
                   16 * HexValue(str[2 * k - 1]) + HexValue(str[2 * k])])

Base64Alphabet ==
    <<"A", "B", "C", "D", "E", "F", "G", "H", "I", "J", "K", "L", "M",
      "N", "O", "P", "Q", "R", "S", "T", "U", "V", "W", "X", "Y", "Z",
      "a", "b", "c", "d", "e", "f", "g", "h", "i", "j", "k", "l", "m",
      "n", "o", "p", "q", "r", "s", "t", "u", "v", "w", "x", "y", "z",
      "0", "1", "2", "3", "4", "5", "6", "7", "8", "9", "+", "/">>

Base64Value(c) ==
    IF \E i \in DOMAIN Base64Alphabet : Base64Alphabet[i] = c
    THEN (CHOOSE i \in DOMAIN Base64Alphabet : Base64Alphabet[i] = c) - 1
    ELSE -1

\* The bytes of one group of four characters, "=" padding the last group
Base64Quad(q) ==
    LET a == Base64Value(q[1])
        b == Base64Value(q[2])
        c == Base64Value(q[3])
        d == Base64Value(q[4])
        b1 == 4 * a + (b \div 16)
        b2 == 16 * (b % 16) + (c \div 4)
        b3 == 64 * (c % 4) + d
    IN  IF q[3] = "=" THEN <<b1>>
        ELSE IF q[4] = "=" THEN <<b1, b2>>
        ELSE <<b1, b2, b3>>

RECURSIVE Base64Quads(_)
Base64Quads(str) ==
    IF str = <<>> THEN <<>>
    ELSE Base64Quad(SubSeq(str, 1, 4)) \o Base64Quads(SubSeq(str, 5, Len(str)))

\* base64::decode of padded standard base64 (the texts drawn here are whole
\* padded groups, or hold a character outside the alphabet, or are one
\* character long): the empty string decodes to no bytes
Base64Decode(str) ==
    IF \/ Len(str) % 4 # 0
       \/ \E i \in DOMAIN str :
             IF str[i] = "="
             THEN i < Len(str) - 1 \/ (i = Len(str) - 1 /\ str[Len(str)] # "=")
             ELSE Base64Value(str[i]) < 0
    THEN KeyErr
    ELSE KeyOk(Base64Quads(str))

\* The byte of a character of the texts drawn here
Ascii(c) ==
    LET v == Base64Value(c)
    IN  IF v \in 0..25 THEN 65 + v
        ELSE IF v \in 26..51 THEN 97 + (v - 26)
        ELSE IF v \in 52..61 THEN 48 + (v - 52)
        ELSE IF c = "+" THEN 43
        ELSE IF c = "/" THEN 47
        ELSE IF c = "=" THEN 61
        ELSE 33

\* Option<JwtSigningKeySource>
NoKeySource == [kind |-> "None", secret |-> <<>>, encoding |-> "Bytes"]
KeySourceValue(secret, encoding) == [kind |-> "Value", secret |-> secret, encoding |-> encoding]
KeySourceFromEnv(encoding) == [kind |-> "FromEnv", secret |-> <<>>, encoding |-> encoding]
KeySourceFromFile(encoding) == [kind |-> "FromFile", secret |-> <<>>, encoding |-> encoding]

\* What the source names: the environment variable or the file, unset or
\* missing, or its text
Absent == [present |-> FALSE, text |-> <<>>]
Present(text) == [present |-> TRUE, text |-> text]

DecodeAs(encoding, text) ==
    CASE encoding = "Hex" -> HexDecode(text)
      [] encoding = "Base64" -> Base64Decode(text)

\* JwtSigningKeySource::get_secret_key_bytes
GetSecretKeyBytes(key_source, named) ==
    CASE key_source.kind = "Value" ->
            IF key_source.encoding = "Bytes"
            THEN KeyErr
            ELSE DecodeAs(key_source.encoding, key_source.secret)
      [] key_source.kind = "FromEnv" ->
            IF named.present
            THEN IF key_source.encoding = "Bytes"
                 THEN KeyErr
                 ELSE DecodeAs(key_source.encoding, named.text)
            ELSE KeyErr
      [] key_source.kind = "FromFile" ->
            IF named.present
            THEN IF key_source.encoding = "Bytes"
                 THEN KeyOk([i \in DOMAIN named.text |-> Ascii(named.text[i])])
                 ELSE DecodeAs(key_source.encoding, named.text)
            ELSE KeyErr

\* Option<Vec<u8>>
NoKey == [some |-> FALSE, bytes |-> <<>>]
SomeKey(bytes) == [some |-> TRUE, bytes |-> bytes]

ListenerConfig(key_source, pdp) == [jwt_signing_key_source |-> key_source, pdp |-> pdp]

\* The outcome of a construction: the listener and what it holds, or a panic
Built(secret_key_bytes, pdp) ==
    [built |-> TRUE, secret_key_bytes |-> secret_key_bytes, pdp |-> pdp]
Panicked == [built |-> FALSE, secret_key_bytes |-> NoKey, pdp |-> <<>>]

\* Listener::new
ListenerNew(config, named) ==
    IF config.jwt_signing_key_source.kind # "None"
    THEN LET r == GetSecretKeyBytes(config.jwt_signing_key_source, named)
         IN  IF r.ok THEN Built(SomeKey(r.bytes), config.pdp) ELSE Panicked
    ELSE Built(NoKey, config.pdp)

\* Proxy::new with one configured listener, Proxy::get_secret_key_bytes
ProxyNew(config, named) ==
    IF config.jwt_signing_key_source.kind # "None"
    THEN LET r == GetSecretKeyBytes(config.jwt_signing_key_source, named)
         IN  IF r.ok THEN Built(SomeKey(r.bytes), config.pdp) ELSE Built(NoKey, config.pdp)
    ELSE Built(NoKey, config.pdp)

(***************************************************************************)
(* SpecFunctions: one function applied to drawn arguments                  *)
(***************************************************************************)
HexTextPool == SeqsUpTo({"0", "a", "F", "g"}, MaxLen)

Base64TextPool ==
    {<<>>, <<"Q", "Q", "=", "=">>, <<"Q", "U", "I", "=">>, <<"Q", "U", "J", "D">>,
     <<"Q">>, <<"!", "!", "!", "!">>}

\* A key source with what it names: nothing for None and Value
KeySourcePool ==
    {<<NoKeySource, Absent>>}
    \cup {<<KeySourceValue(t, "Hex"), Absent>> : t \in HexTextPool}
    \cup {<<KeySourceValue(t, e), Absent>> : t \in Base64TextPool, e \in {"Base64", "Bytes"}}
    \cup {<<src, Absent>> :
            src \in {KeySourceFromEnv(e) : e \in {"Hex", "Base64", "Bytes"}}
                    \cup {KeySourceFromFile(e) : e \in {"Hex", "Base64", "Bytes"}}}
    \cup {<<src, Present(t)>> :
            src \in {KeySourceFromEnv("Hex"), KeySourceFromFile("Hex")}, t \in HexTextPool}
    \cup {<<src, Present(t)>> :
            src \in {KeySourceFromEnv("Base64"), KeySourceFromFile("Base64"),
                     KeySourceFromEnv("Bytes"), KeySourceFromFile("Bytes")},
            t \in Base64TextPool}

\* A rule list in the order of a permutation p of its positions
Permuted(rules, p) == [k \in 1..Len(rules) |-> rules[p[k]]]

\* Rules whose patterns overlap
OverlappingRulePool ==
    {Allow(PatternQuery(s_star)), Deny(PatternQuery(s_schema)), Deny(PatternAny),
     Allow(PatternMutation(s_star))}

\* A policy, a permutation of its rule list and a request
PermutationArg(rules, p, document) ==
    [fn |-> "Policy::allows", policy |-> Policy(<<ClaimPresent("sub")>>, rules), p |-> p,
     request |-> Request(claims_user, document)]

ConstructionArgs(fn) ==
    {[fn |-> fn, config |-> ListenerConfig(k[1], pdp), named |-> k[2]] :
        k \in KeySourcePool, pdp \in {<<>>, <<policy_allow_any>>}}

\* count_top_level_fields / update_results: the fields directly under the
\* selection set of every query and bare selection set of the document
TopLevelFieldSlots(document) ==
    UNION {{<<d, i>> : i \in {j \in DOMAIN document[d].items :
                                  /\ document[d].kind \in {"Query", "SelectionSet"}
                                  /\ document[d].items[j].kind = "Field"}} :
           d \in DOMAIN document}

CountTopLevelFields(document) ==
    LET slots == TopLevelFieldSlots(document)
        names == {document[s[1]].items[s[2]].name : s \in slots}
    IN  [n \in names |->
            Cardinality({s \in slots : document[s[1]].items[s[2]].name = n})]

FieldPatternPool ==
    SeqsUpTo({"a", "b", "A", "*"}, MaxLen) \cup {s_foo, s_foo_star, s_star_foo_star}

\* Field names (a GraphQL name is never empty)
NamePool ==
    (SeqsUpTo({"a", "b", "A"}, MaxLen) \ {<<>>}) \cup {s_foo, s_foobar, s_barfoo}

SelectionPool ==
    {Field(s_hero), Field(s_createHero), Field(s_schema), InlineFragment, FragmentSpread}

OperationPool ==
    UNION {{Query(items), Mutation(items), SelectionSet(items), Subscription(items)} :
           items \in SeqsUpTo(SelectionPool, MaxItems)}

PatternArgPool ==
    {PatternAny}
    \cup UNION {{PatternQuery(fp), PatternMutation(fp)} :
                fp \in {s_star, s_hero, s_createHero, <<"h", "*">>}}

RuleArgPool == {Allow(p) : p \in PatternArgPool} \cup {Deny(p) : p \in PatternArgPool}

\* Strings handed to Pattern::parse, and the field patterns of the Pattern
\* values handed to Display
StringPool ==
    {prefix \o body :
        prefix \in {<<>>, s_query_colon, s_mutation_colon, <<"q", "u", "e", "r", "y">>,
                    <<"m", "u", "t", "a", "t", "i", "o", "n">>},
        body \in SeqsUpTo({"a", "*", ":"}, MaxLen)}

PatternValuePool ==
    {PatternAny} \cup UNION {{PatternQuery(fp), PatternMutation(fp)} : fp \in StringPool}

ClaimValuePool ==
    SeqsUpTo({"a", ",", " "}, MaxLen) \cup {s_1, s_admin, s_user, s_user_admin, s_user_sp_admin}

AttributePool ==
    {AttrAny}
    \cup UNION {{ClaimPresent(c)} \cup {ClaimEquals(c, v) : v \in ClaimValuePool}
                                  \cup {ClaimIncludes(c, v) : v \in ClaimValuePool} :
                c \in {"sub", "roles"}}

ClaimsArgPool ==
    ClaimsPool \cup {[roles |-> JsonString(v)] : v \in ClaimValuePool}

\* Documents handed to count_top_level_fields
CountArgPool == DocPool \cup {<<operation>> : operation \in OperationPool}

InitFunctions ==
    /\ \/ arg \in {[fn |-> "count_top_level_fields", document |-> d] : d \in CountArgPool}
       \/ arg \in {[fn |-> "FieldPattern::matches", fp |-> fp, name |-> n] :
                      fp \in FieldPatternPool, n \in NamePool}
       \/ arg \in {[fn |-> "Pattern::matches", pattern |-> p, op |-> op] :
                      p \in PatternArgPool, op \in OperationPool}
       \/ arg \in {[fn |-> "Rule::allows", rule |-> r, op |-> op] :
                      r \in RuleArgPool, op \in OperationPool}
       \/ arg \in {[fn |-> "Pattern::parse", s |-> str] : str \in StringPool}
       \/ arg \in {[fn |-> "Pattern::fmt", pattern |-> p] : p \in PatternValuePool}
       \/ arg \in {[fn |-> "MatchAttribute::matches", attr |-> a, claims |-> c] :
                      a \in AttributePool, c \in ClaimsArgPool}
       \/ \E rules \in SeqsUpTo(OverlappingRulePool, MaxRules), document \in DocPool :
             \E p \in Permutations(DOMAIN rules) : arg = PermutationArg(rules, p, document)
       \/ arg \in ConstructionArgs("Listener::new")
       \/ arg \in ConstructionArgs("Proxy::new")
    /\ ret = NoRet
    /\ inPdp = <<>>
    /\ inReq = Request(claims_none, <<>>)
    /\ out = NoOut
    /\ context = NoContext
    /\ handlers = NoHandlers

\* FieldPattern::matches on a field of the drawn name
ApplyFieldPatternMatches ==
    /\ arg.fn = "FieldPattern::matches"
    /\ ret = NoRet
    /\ ret' = [fn |-> arg.fn, matches |-> FieldPatternMatches(arg.fp, arg.name)]
    /\ UNCHANGED <<inPdp, inReq, out, context, handlers, arg>>

\* Pattern::matches
ApplyPatternMatches ==
    /\ arg.fn = "Pattern::matches"
    /\ ret = NoRet
    /\ ret' = [fn |-> arg.fn, matches |-> PatternMatches(arg.pattern, arg.op)]
    /\ UNCHANGED <<inPdp, inReq, out, context, handlers, arg>>

\* Rule::allows and Rule::matches on the same rule and operation
ApplyRuleAllows ==
    /\ arg.fn = "Rule::allows"
    /\ ret = NoRet
    /\ ret' = [fn |-> arg.fn, allows |-> RuleAllows(arg.rule, arg.op),
               matches |-> RuleMatches(arg.rule, arg.op)]
    /\ UNCHANGED <<inPdp, inReq, out, context, handlers, arg>>

\* Pattern::parse, and to_string() of the Pattern it returned
ApplyPatternParse ==
    /\ arg.fn = "Pattern::parse"
    /\ ret = NoRet
    /\ ret' = [fn |-> arg.fn, pattern |-> PatternParse(arg.s),
               display |-> PatternDisplay(PatternParse(arg.s))]
    /\ UNCHANGED <<inPdp, inReq, out, context, handlers, arg>>

\* to_string() of a Pattern, and Pattern::parse of that string
ApplyPatternDisplay ==
    /\ arg.fn = "Pattern::fmt"
    /\ ret = NoRet
    /\ ret' = [fn |-> arg.fn, display |-> PatternDisplay(arg.pattern),
               pattern |-> PatternParse(PatternDisplay(arg.pattern))]
    /\ UNCHANGED <<inPdp, inReq, out, context, handlers, arg>>

\* MatchAttribute::matches on a request that carries the drawn claims
ApplyAttrMatches ==
    /\ arg.fn = "MatchAttribute::matches"
    /\ ret = NoRet
    /\ ret' = [fn |-> arg.fn, matches |-> AttrMatches(arg.attr, arg.claims)]
    /\ UNCHANGED <<inPdp, inReq, out, context, handlers, arg>>

\* Policy::allows on the policy, and on the policy with its rules permuted
ApplyPolicyAllows ==
    /\ arg.fn = "Policy::allows"
    /\ ret = NoRet
    /\ ret' = [fn |-> arg.fn, allows |-> PolicyAllows(arg.policy, arg.request),
               permuted |-> PolicyAllows(Policy(arg.policy.attributes,
                                                Permuted(arg.policy.rules, arg.p)),
                                         arg.request)]
    /\ UNCHANGED <<inPdp, inReq, out, context, handlers, arg>>

\* Listener::new
ApplyListenerNew ==
    /\ arg.fn = "Listener::new"
    /\ ret = NoRet
    /\ ret' = [fn |-> arg.fn, listener |-> ListenerNew(arg.config, arg.named)]
    /\ UNCHANGED <<inPdp, inReq, out, context, handlers, arg>>

\* Proxy::new
ApplyProxyNew ==
    /\ arg.fn = "Proxy::new"
    /\ ret = NoRet
    /\ ret' = [fn |-> arg.fn, listener |-> ProxyNew(arg.config, arg.named)]
    /\ UNCHANGED <<inPdp, inReq, out, context, handlers, arg>>

\* count_top_level_fields on a query string that parses to the drawn document
ApplyCountTopLevelFields ==
    /\ arg.fn = "count_top_level_fields"
    /\ ret = NoRet
    /\ ret' = [fn |-> arg.fn, counts |-> CountTopLevelFields(arg.document)]
    /\ UNCHANGED <<inPdp, inReq, out, context, handlers, arg>>

NextFunctions ==
    \/ ApplyFieldPatternMatches
    \/ ApplyPatternMatches
    \/ ApplyRuleAllows
    \/ ApplyPatternParse
    \/ ApplyPatternDisplay
    \/ ApplyAttrMatches
    \/ ApplyPolicyAllows
    \/ ApplyListenerNew
    \/ ApplyProxyNew
    \/ ApplyCountTopLevelFields

SpecFunctions == InitFunctions /\ [][NextFunctions]_vars

(***************************************************************************)
(* The listener: ListenerContext, requests, ProxyService                   *)
(***************************************************************************)
Handlers == {"h1", "h2"}

UNAUTHORIZED == 401
BAD_REQUEST == 400
NOT_FOUND == 404

s_Bearer == <<"B", "e", "a", "r", "e", "r", " ">>
s_bearer == <<"b", "e", "a", "r", "e", "r", " ">>
s_BearerNoSpace == <<"B", "e", "a", "r", "e", "r">>

\* Compact JWTs, each standing for one string of the header
tok_user == <<"jwt:user">>                \* signed with the listener's key, payload {"sub":"1"}
tok_admin == <<"jwt:admin">>              \* signed with the listener's key, payload {"sub":"2","roles":"user,admin"}
tok_roles_array == <<"jwt:roles_array">>  \* signed with the listener's key, payload {"sub":"2","roles":[...]}
tok_array == <<"jwt:array">>              \* signed with the listener's key, payload is a JSON array
tok_forged == <<"jwt:forged">>            \* payload {"sub":"1"}, signed with another key

\* frank_jwt::decode(token, secret_key_bytes, Algorithm::HS256): Ok((header,
\* payload)) when the token is well formed and its signature verifies
Decode(token) ==
    CASE token = tok_user -> [ok |-> TRUE, object |-> TRUE, map |-> claims_user]
      [] token = tok_admin -> [ok |-> TRUE, object |-> TRUE, map |-> claims_admin]
      [] token = tok_roles_array -> [ok |-> TRUE, object |-> TRUE, map |-> claims_roles_array]
      [] token = tok_array -> [ok |-> TRUE, object |-> FALSE, map |-> <<>>]
      [] OTHER -> [ok |-> FALSE, object |-> FALSE, map |-> <<>>]

\* HeaderValue::to_str fails on a value holding a byte that is not visible ASCII
ToStrOk(value) == \A i \in 1..Len(value) : value[i] # "\\xff"

\* Result<Claims, Box<dyn Error>>
AuthErr == [ok |-> FALSE, claims |-> <<>>]
AuthOk(map) == [ok |-> TRUE, claims |-> map]

\* Mutant of GetAuthorizationToken: a request without the header is anonymous
GetAuthorizationTokenAnonymous(req) ==
    IF "authorization" \in DOMAIN req.headers
    THEN LET authorization == req.headers["authorization"]
             decoded == Decode(SubSeq(authorization, 8, Len(authorization)))
         IN  IF ToStrOk(authorization) /\ StartsWith(authorization, s_Bearer)
                /\ decoded.ok /\ decoded.object
             THEN AuthOk(decoded.map) ELSE AuthErr
    ELSE AuthOk(<<>>)

\* Mutant of GetAuthorizationToken: the scheme is not compared, the token is
\* whatever follows the first seven characters
GetAuthorizationTokenAnyScheme(req) ==
    IF "authorization" \in DOMAIN req.headers
    THEN LET authorization == req.headers["authorization"]
             decoded == Decode(SubSeq(authorization, 8, Len(authorization)))
         IN  IF ToStrOk(authorization) /\ decoded.ok /\ decoded.object
             THEN AuthOk(decoded.map) ELSE AuthErr
    ELSE AuthErr

GetAuthorizationToken(req) ==
    IF "authorization" \in DOMAIN req.headers
    THEN LET authorization == req.headers["authorization"]
         IN  IF ~ToStrOk(authorization) THEN AuthErr
             ELSE IF StartsWith(authorization, s_Bearer)
                  THEN LET token_str == SubSeq(authorization, 8, Len(authorization))
                           decoded == Decode(token_str)
                       IN  IF decoded.ok
                           THEN IF decoded.object THEN AuthOk(decoded.map) ELSE AuthErr
                           ELSE AuthErr
                  ELSE AuthErr
    ELSE AuthErr

\* Request bodies: what the bytes are, and the document of the GraphQL text
\* they carry (NoDocument when that text does not parse)
NoDocument == <<>>
GraphqlBody(document) == [shape |-> "graphql", document |-> document]
JsonBody(document) == [shape |-> "json", document |-> document]
GarbageBody == [shape |-> "garbage", document |-> NoDocument]

\* parse_post(content_type, body): Ok(Some((document, counts))) or not
ParseFailed == [ok |-> FALSE, document |-> NoDocument, counts |-> <<>>]
Parsed(document) == [ok |-> TRUE, document |-> document, counts |-> CountTopLevelFields(document)]

ParsePost(content_type, body) ==
    CASE content_type \in {"application/graphql", "None"} ->
            IF body.shape = "graphql" /\ body.document # NoDocument
            THEN Parsed(body.document) ELSE ParseFailed
      [] content_type = "application/json" ->
            IF body.shape = "json" /\ body.document # NoDocument
            THEN Parsed(body.document) ELSE ParseFailed
      [] OTHER -> ParseFailed

\* get_content_type_as_mime_type: Option<Mime>, None when the header is
\* absent or is no MIME type
GetContentType(headers) ==
    IF "content_type" \in DOMAIN headers
    THEN IF headers["content_type"] = "not a mime" THEN "None" ELSE headers["content_type"]
    ELSE "None"

\* Inbound requests.  query: whether the URI has a query string.
HttpRequest(method, headers, query, body) ==
    [method |-> method, headers |-> headers, query |-> query, body |-> body]

Authorizations ==
    {s_Bearer \o tok_user, s_Bearer \o tok_admin, s_Bearer \o tok_roles_array,
     s_Bearer \o tok_array, s_Bearer \o tok_forged, s_bearer \o tok_user,
     s_BearerNoSpace \o tok_user, s_Bearer \o <<"\\xff">>}

\* POSTs that differ in their Authorization header
PostsByAuthorization ==
    {HttpRequest("POST", [content_type |-> "application/graphql"], FALSE, GraphqlBody(doc_hero))}
    \cup {HttpRequest("POST", [authorization |-> a, content_type |-> "application/graphql"],
                      FALSE, GraphqlBody(doc_hero)) : a \in Authorizations}

\* POSTs of one valid user that differ in Content-Type and body
PostsByBody ==
    {HttpRequest("POST", [authorization |-> s_Bearer \o tok_user, content_type |-> ct], FALSE, b) :
        ct \in {"application/graphql", "application/json", "text/plain", "not a mime"},
        b \in {GraphqlBody(doc_schema), JsonBody(doc_hero), GarbageBody}}
    \cup {HttpRequest("POST", [authorization |-> s_Bearer \o tok_user], FALSE, GraphqlBody(doc_mutation)),
          HttpRequest("POST", <<>>, FALSE, GraphqlBody(doc_schema))}

OtherMethods ==
    {HttpRequest(m, h, q, GraphqlBody(doc_hero)) :
        m \in {"GET", "PUT"},
        h \in {<<>>, [authorization |-> s_Bearer \o tok_user]},
        q \in BOOLEAN}

RequestPool == PostsByAuthorization \cup PostsByBody \cup OtherMethods

ContextPool ==
    [secret_key_bytes : {"None", "Some"},
     pdp : {<<>>, <<policy_allow_any>>, <<user_policy, admin_policy>>},
     influx_db_backend : {"None", "Some"}]

\* Option<Claims>
None == [some |-> FALSE, map |-> <<>>]
Some(map) == [some |-> TRUE, map |-> map]

NoRequest == HttpRequest("", <<>>, FALSE, GarbageBody)
NoResponse == [from |-> "none", status |-> 0]
Halt(status_code) == [from |-> "proxy", status |-> status_code]
UpstreamResponse == [from |-> "upstream", status |-> 200]

\* A handler: pc is its position, claims the Option<Claims> of call(),
\* hist the steps it has taken, in order
Idle ==
    [pc |-> "idle", req |-> NoRequest, claims |-> None, document |-> NoDocument,
     counts |-> <<>>, response |-> NoResponse, hist |-> <<>>]

Init ==
    /\ context \in ContextPool
    /\ handlers = [h \in Handlers |-> Idle]
    /\ inPdp = <<>>
    /\ inReq = Request(<<>>, NoDocument)
    /\ out = NoOut
    /\ arg = NoArg
    /\ ret = NoRet

Set(h, fields) ==
    handlers' = [handlers EXCEPT ![h] = fields @@ handlers[h]]

Did(h, event) == Append(handlers[h].hist, event)

\* hyper hands a request to ProxyService::call
Accept(h) ==
    /\ handlers[h].pc = "idle"
    /\ \E r \in RequestPool : Set(h, [pc |-> "accepted", req |-> r])
    /\ UNCHANGED <<context, inPdp, inReq, out, arg, ret>>

\* Mutant of Call: a method other than GET and POST is passed on upstream
CallForwardsOtherMethods(h) ==
    LET req == handlers[h].req
        auth == context.secret_key_bytes = "Some"
        token == GetAuthorizationToken(req)
        claims == IF auth THEN Some(token.claims) ELSE None
        hist == IF auth THEN Did(h, "token_valid") ELSE handlers[h].hist
    IN  /\ handlers[h].pc = "accepted"
        /\ IF auth /\ ~token.ok
           THEN Set(h, [pc |-> "done", response |-> Halt(UNAUTHORIZED)])
           ELSE CASE req.method = "GET" ->
                       \* compute_get_uri: req.uri().query().unwrap()
                       IF req.query
                       THEN Set(h, [pc |-> "upstream", claims |-> claims,
                                    hist |-> Append(hist, "upstream")])
                       ELSE Set(h, [pc |-> "panicked", claims |-> claims, hist |-> hist])
                  [] req.method = "POST" ->
                       IF auth /\ ~claims.some
                       THEN Set(h, [pc |-> "done", response |-> Halt(UNAUTHORIZED)])
                       ELSE Set(h, [pc |-> "body", claims |-> claims, hist |-> hist])
                  [] OTHER ->
                       Set(h, [pc |-> "upstream", claims |-> claims,
                               hist |-> Append(hist, "upstream")])
        /\ UNCHANGED <<context, inPdp, inReq, out, arg, ret>>

\* ProxyService::call, with the part of do_get / do_post that runs before
\* the returned future is first polled
Call(h) ==
    LET req == handlers[h].req
        auth == context.secret_key_bytes = "Some"
        token == GetAuthorizationToken(req)
        claims == IF auth THEN Some(token.claims) ELSE None
        hist == IF auth THEN Did(h, "token_valid") ELSE handlers[h].hist
    IN  /\ handlers[h].pc = "accepted"
        /\ IF auth /\ ~token.ok
           THEN Set(h, [pc |-> "done", response |-> Halt(UNAUTHORIZED)])
           ELSE CASE req.method = "GET" ->
                       \* compute_get_uri: req.uri().query().unwrap()
                       IF req.query
                       THEN Set(h, [pc |-> "upstream", claims |-> claims,
                                    hist |-> Append(hist, "upstream")])
                       ELSE Set(h, [pc |-> "panicked", claims |-> claims, hist |-> hist])
                  [] req.method = "POST" ->
                       IF auth /\ ~claims.some
                       THEN Set(h, [pc |-> "done", response |-> Halt(UNAUTHORIZED)])
                       ELSE Set(h, [pc |-> "body", claims |-> claims, hist |-> hist])
                  [] OTHER ->
                       Set(h, [pc |-> "done", claims |-> claims, hist |-> hist,
                               response |-> Halt(NOT_FOUND)])
        /\ UNCHANGED <<context, inPdp, inReq, out, arg, ret>>

\* body.concat2() completes: the closure of do_post gets the whole body
BodyConcat(h) ==
    /\ handlers[h].pc = "body"
    /\ Set(h, [pc |-> "parse", hist |-> Did(h, "body_drained")])
    /\ UNCHANGED <<context, inPdp, inReq, out, arg, ret>>

\* body.concat2() fails (the client went away): from_err() hands the
\* hyper::Error on
BodyError(h) ==
    /\ handlers[h].pc = "body"
    /\ Set(h, [pc |-> "error"])
    /\ UNCHANGED <<context, inPdp, inReq, out, arg, ret>>

\* Mutant of ParseBody: a body that does not parse goes on without a document
ParseBodyLenient(h) ==
    LET req == handlers[h].req
        parsed == ParsePost(GetContentType(req.headers), req.body)
    IN  /\ handlers[h].pc = "parse"
        /\ Set(h, [pc |-> "log", document |-> parsed.document, counts |-> parsed.counts,
                   hist |-> Did(h, "parsed")])
        /\ UNCHANGED <<context, inPdp, inReq, out, arg, ret>>

\* do_post closure: if let Ok(Some((document, counts))) = super::parse_post(content_type, &body)
\* { ... } else { halt(StatusCode::BAD_REQUEST) }
ParseBody(h) ==
    LET req == handlers[h].req
        parsed == ParsePost(GetContentType(req.headers), req.body)
    IN  /\ handlers[h].pc = "parse"
        /\ IF parsed.ok
           THEN Set(h, [pc |-> "log", document |-> parsed.document, counts |-> parsed.counts,
                        hist |-> Did(h, "parsed")])
           ELSE Set(h, [pc |-> "done", response |-> Halt(BAD_REQUEST)])
        /\ UNCHANGED <<context, inPdp, inReq, out, arg, ret>>

\* Mutant of LogCounts: a failed write takes the backend out of the context
LogCountsDropsBackend(h) ==
    /\ handlers[h].pc = "log"
    /\ \/ /\ context.influx_db_backend = "None"
          /\ Set(h, [pc |-> "authorize"])
          /\ UNCHANGED context
       \/ /\ context.influx_db_backend = "Some"
          /\ Set(h, [pc |-> "authorize", hist |-> Did(h, "sink_write")])
          /\ UNCHANGED context
       \/ /\ context.influx_db_backend = "Some"
          /\ Set(h, [pc |-> "authorize", hist |-> Did(h, "sink_failed")])
          /\ context' = [context EXCEPT !.influx_db_backend = "None"]
    /\ UNCHANGED <<inPdp, inReq, out, arg, ret>>

\* do_post closure: super::log_counts(&backend, &counts) when a backend is
\* configured.  Backend::write_points unwraps the result of the InfluxDB
\* client: a failed write panics.
LogCounts(h) ==
    /\ handlers[h].pc = "log"
    /\ \/ /\ context.influx_db_backend = "None"
          /\ Set(h, [pc |-> "authorize"])
       \/ /\ context.influx_db_backend = "Some"
          /\ Set(h, [pc |-> "authorize", hist |-> Did(h, "sink_write")])
       \/ /\ context.influx_db_backend = "Some"
          /\ Set(h, [pc |-> "panicked", hist |-> Did(h, "sink_failed")])
    /\ UNCHANGED <<context, inPdp, inReq, out, arg, ret>>

\* Mutant of Authorize: the PDP is not asked
AuthorizeNoPdp(h) ==
    /\ handlers[h].pc = "authorize"
    /\ Set(h, [pc |-> "forward"])
    /\ UNCHANGED <<context, inPdp, inReq, out, arg, ret>>

\* do_post closure: if auth { if !pdp.allows(&request) { return halt(401) } }
Authorize(h) ==
    LET auth == context.secret_key_bytes = "Some"
        allows == PdpAllows(context.pdp, Request(handlers[h].claims.map, handlers[h].document))
    IN  /\ handlers[h].pc = "authorize"
        /\ IF auth
           THEN CASE allows = T -> Set(h, [pc |-> "forward", hist |-> Did(h, "pdp_permit")])
                  [] allows = F -> Set(h, [pc |-> "done", hist |-> Did(h, "pdp_deny"),
                                           response |-> Halt(UNAUTHORIZED)])
                  [] OTHER -> Set(h, [pc |-> "panicked", hist |-> Did(h, "pdp_panic")])
           ELSE Set(h, [pc |-> "forward"])
        /\ UNCHANGED <<context, inPdp, inReq, out, arg, ret>>

\* do_post closure: Request::post(&uri), copy_headers, client.request(outbound)
Forward(h) ==
    /\ handlers[h].pc = "forward"
    /\ Set(h, [pc |-> "upstream", hist |-> Did(h, "upstream")])
    /\ UNCHANGED <<context, inPdp, inReq, out, arg, ret>>

\* The upstream answers: its response is the handler's response
UpstreamOk(h) ==
    /\ handlers[h].pc = "upstream"
    /\ Set(h, [pc |-> "done", response |-> UpstreamResponse])
    /\ UNCHANGED <<context, inPdp, inReq, out, arg, ret>>

\* The upstream request fails: the future resolves to Err(hyper::Error)
UpstreamErr(h) ==
    /\ handlers[h].pc = "upstream"
    /\ Set(h, [pc |-> "error"])
    /\ UNCHANGED <<context, inPdp, inReq, out, arg, ret>>

Next ==
    \E h \in Handlers :
        \/ Accept(h)
        \/ Call(h)
        \/ BodyConcat(h)
        \/ BodyError(h)
        \/ ParseBody(h)
        \/ LogCounts(h)
        \/ Authorize(h)
        \/ Forward(h)
        \/ UpstreamOk(h)
        \/ UpstreamErr(h)

Spec == Init /\ [][Next]_vars

(***************************************************************************)
(* Properties of SpecAbac                                                  *)
(***************************************************************************)
Evaluated == out # NoOut

\* The PDP without its i-th policy
WithoutPolicy(pdp, i) == SubSeq(pdp, 1, i - 1) \o SubSeq(pdp, i + 1, Len(pdp))

IsOperation(def) == def.kind \in {"Query", "Mutation", "SelectionSet"}

\* C1: a PDP that holds zero policies denies every request, whatever the
\* claims and the document.
C1_DefaultDeny ==
    (Evaluated /\ inPdp = <<>>) => out.pdp = F

C1_Witness ==
    /\ Evaluated
    /\ inPdp = <<>>
    /\ inReq = Request(claims_user, doc_schema)
    /\ out.pdp = F

\* C2: PDP.allows is true iff at least one policy of the list both applies to
\* the request and itself decides true.
C2_PermitIffApplicablePolicyAllows ==
    Evaluated =>
        ((out.pdp = T) <=>
            \E i \in DOMAIN inPdp : out.matches[i] = T /\ out.allows[i] = T)

\* C3: an applicable policy whose rules hold Allow(p) and Deny(p) for one
\* pattern p denies every document with an operation that p matches, wherever
\* the two rules stand and whatever the other rules are.
C3_DenyBeatsAllow ==
    Evaluated =>
        \A i \in DOMAIN inPdp :
            LET rules == inPdp[i].rules
                document == inReq.document
            IN  (/\ out.matches[i] = T
                 /\ \E a, b \in DOMAIN rules :
                        /\ rules[a].kind = "Allow"
                        /\ rules[b].kind = "Deny"
                        /\ rules[a].pattern = rules[b].pattern
                        /\ \E d \in DOMAIN document :
                               /\ IsOperation(document[d])
                               /\ PatternMatches(rules[a].pattern, document[d]))
                => out.allows[i] = F

C3_Witness ==
    /\ Evaluated
    /\ inPdp = <<Policy(<<ClaimPresent("sub")>>,
                        <<Deny(PatternQuery(s_star)), Allow(PatternMutation(s_star)),
                          Allow(PatternQuery(s_star))>>)>>
    /\ inReq = Request(claims_user, doc_hero_schema)
    /\ out.matches[1] = T
    /\ out.allows[1] = F

\* C4: for an applicable policy and a document of operations only, an
\* operation that no rule's pattern matches is permitted, and the policy
\* allows the request when no rule matches any operation.
C4_NoOpinionPermits ==
    Evaluated =>
        \A i \in DOMAIN inPdp :
            LET rules == inPdp[i].rules
                document == inReq.document
                Unmatched(d) == \A r \in DOMAIN rules : ~PatternMatches(rules[r].pattern, document[d])
            IN  (/\ out.matches[i] = T
                 /\ \A d \in DOMAIN document : IsOperation(document[d]))
                => /\ \A d \in DOMAIN document : Unmatched(d) => out.ops[i][d]
                   /\ (\A d \in DOMAIN document : Unmatched(d)) => out.allows[i] = T

C4_Witness ==
    /\ Evaluated
    /\ inPdp = <<Policy(<<>>, <<Deny(PatternMutation(s_star)), Allow(PatternQuery(s_schema))>>)>>
    /\ inReq = Request(claims_none, doc_query_hero)
    /\ out.ops[1][1]
    /\ out.allows[1] = T

\* C5: a policy applies iff every one of its MatchAttributes matches the
\* claims; a policy with an attribute that does not match has Policy.allows
\* false, and the PDP decides as it does without that policy (when other
\* policies remain).
C5_AppliesToGate ==
    Evaluated =>
        \A i \in DOMAIN inPdp :
            LET attributes == inPdp[i].attributes
            IN  /\ (out.matches[i] = T) <=>
                       \A a \in DOMAIN attributes : AttrMatches(attributes[a], inReq.claims) = T
                /\ (\E a \in DOMAIN attributes : AttrMatches(attributes[a], inReq.claims) = F)
                   => /\ out.allows[i] = F
                      /\ Len(inPdp) > 1 => out.pdp = PdpAllows(WithoutPolicy(inPdp, i), inReq)

\* Some Deny rule of the list matches some operation of the document
SomeDenyMatches(rules, document) ==
    \E d \in DOMAIN document, r \in DOMAIN rules :
        /\ IsOperation(document[d])
        /\ rules[r].kind = "Deny"
        /\ PatternMatches(rules[r].pattern, document[d])

OnlyOperations(document) == \A d \in DOMAIN document : IsOperation(document[d])

OnlyFragments(op) ==
    /\ op.items # <<>>
    /\ \A k \in DOMAIN op.items : op.items[k].kind \in {"FragmentSpread", "InlineFragment"}

\* C24: an operation whose top-level selections are only FragmentSpread or
\* InlineFragment items is matched by no Query or Mutation pattern, and every
\* applicable policy denies it; so a policy with Deny(query:__schema) does
\* not permit a bare selection set that reaches __schema only through a
\* top-level inline fragment.
C24_FragmentOnlyDenied ==
    Evaluated =>
        \A i \in DOMAIN inPdp, d \in DOMAIN inReq.document :
            LET rules == inPdp[i].rules
                op == inReq.document[d]
            IN  (IsOperation(op) /\ OnlyFragments(op))
                => /\ \A r \in DOMAIN rules :
                         rules[r].pattern.kind # "Any" => ~PatternMatches(rules[r].pattern, op)
                   /\ out.matches[i] = T => out.allows[i] = F

\* C25: the policy verdict is the conjunction over all definitions of the
\* document: Policy.allows is true only if every definition is an Operation
\* that is individually permitted; a document with one operation matched by
\* a Deny rule, or with a definition that is no Operation (a top-level
\* fragment definition), is denied by that policy even when its other
\* operations are permitted.
C25_VerdictIsConjunction ==
    Evaluated =>
        \A i \in DOMAIN inPdp :
            LET document == inReq.document
            IN  out.matches[i] = T
                => /\ out.allows[i] = T
                      <=> \A d \in DOMAIN document : IsOperation(document[d]) /\ out.ops[i][d]
                   /\ ~OnlyOperations(document) => out.allows[i] = F
                   /\ SomeDenyMatches(inPdp[i].rules, document) => out.allows[i] = F

C25_Witness ==
    /\ Evaluated
    /\ inPdp = <<user_policy, admin_policy>>
    /\ inReq = Request(claims_user, doc_two_ops)
    /\ out.matches[1] = T
    /\ out.ops[1][1]
    /\ ~out.ops[1][2]
    /\ out.allows[1] = F

\* The rule list without its Allow rules
RECURSIVE WithoutAllow(_)
WithoutAllow(rules) ==
    IF rules = <<>> THEN <<>>
    ELSE IF Head(rules).kind = "Allow"
         THEN WithoutAllow(Tail(rules))
         ELSE <<Head(rules)>> \o WithoutAllow(Tail(rules))

Applied(fn) == arg.fn = fn /\ ret # NoRet

\* The anchored glob: p matches the whole of s, each "*" standing for any
\* substring, every other character for itself
RECURSIVE Glob(_, _)
Glob(p, s) ==
    IF p = <<>> THEN s = <<>>
    ELSE IF Head(p) = "*"
         THEN \E k \in 0..Len(s) : Glob(Tail(p), SubSeq(s, k + 1, Len(s)))
         ELSE /\ s # <<>>
              /\ Head(s) = Head(p)
              /\ Glob(Tail(p), Tail(s))

\* C11: FieldPattern.matches is an anchored, case-sensitive glob match on the
\* whole field name, each "*" standing for any (possibly empty) substring:
\* "*" matches every name, a pattern without "*" matches exactly the name
\* identical to it, "foo*" matches "foo" and "foobar" but not "barfoo".
C11_FieldPatternAnchoredGlob ==
    Applied("FieldPattern::matches") => ret.matches = Glob(arg.fp, arg.name)

\* C12: Rule.allows is Some(true) iff the rule is Allow(p) and p matches the
\* operation, Some(false) iff it is Deny(p) and p matches, None iff p does
\* not match; Rule.matches is true exactly when Rule.allows is not None.
C12_RuleAllowsThreeValued ==
    Applied("Rule::allows")
    => LET m == PatternMatches(arg.rule.pattern, arg.op)
       IN  /\ ret.allows = "Some(true)" <=> (arg.rule.kind = "Allow" /\ m)
           /\ ret.allows = "Some(false)" <=> (arg.rule.kind = "Deny" /\ m)
           /\ ret.allows = "None" <=> ~m
           /\ ret.matches <=> ret.allows # "None"

C12_Witness ==
    /\ Applied("Rule::allows")
    /\ arg.rule = Deny(PatternMutation(s_star))
    /\ arg.op = Mutation(<<Field(s_createHero)>>)
    /\ ret.allows = "Some(false)"
    /\ ret.matches

\* Some top-level Field selection of the operation has a name that satisfies fp
SomeTopLevelField(fp, op) ==
    \E i \in DOMAIN op.items :
        op.items[i].kind = "Field" /\ FieldPatternMatches(fp, op.items[i].name)

\* C13: Pattern.matches is true for Any on every operation; for Query(fp)
\* true iff the operation is a Query or a bare SelectionSet and some top-level
\* Field selection's name satisfies fp; for Mutation(fp) true iff the
\* operation is a Mutation and some top-level Field selection's name
\* satisfies fp.  So a Query pattern never matches a mutation and a Mutation
\* pattern never matches a query or a bare selection set.
C13_PatternMatchesByKind ==
    Applied("Pattern::matches")
    => /\ arg.pattern.kind = "Any" => ret.matches
       /\ arg.pattern.kind = "Query"
          => (ret.matches <=> (/\ arg.op.kind \in {"Query", "SelectionSet"}
                               /\ SomeTopLevelField(arg.pattern.fp, arg.op)))
       /\ arg.pattern.kind = "Mutation"
          => (ret.matches <=> (/\ arg.op.kind = "Mutation"
                               /\ SomeTopLevelField(arg.pattern.fp, arg.op)))

C13_Witness ==
    /\ Applied("Pattern::matches")
    /\ arg.pattern = PatternQuery(s_hero)
    /\ arg.op = Mutation(<<Field(s_hero)>>)
    /\ ~ret.matches

\* C14: Pattern.parse is total and follows the grammar: "*" yields Any, a
\* string that starts with "query:" yields Query(rest after the prefix), a
\* string that starts with "mutation:" yields Mutation(rest after the
\* prefix), every other string s yields Query(s).
C14_ParseGrammar ==
    Applied("Pattern::parse")
    => ret.pattern =
          IF arg.s = s_star THEN PatternAny
          ELSE IF StartsWith(arg.s, s_query_colon)
               THEN PatternQuery(SubSeq(arg.s, Len(s_query_colon) + 1, Len(arg.s)))
               ELSE IF StartsWith(arg.s, s_mutation_colon)
                    THEN PatternMutation(SubSeq(arg.s, Len(s_mutation_colon) + 1, Len(arg.s)))
                    ELSE PatternQuery(arg.s)

C14_Witness ==
    /\ Applied("Pattern::parse")
    /\ arg.s = s_mutation_colon \o <<"a", "*">>
    /\ ret.pattern = PatternMutation(<<"a", "*">>)

\* The canonical forms: "*", "query:<fp>", "mutation:<fp>"
Canonical(str) ==
    \/ str = s_star
    \/ StartsWith(str, s_query_colon)
    \/ StartsWith(str, s_mutation_colon)

\* C15: Display and parse of Pattern are inverse on canonical forms:
\* Display(parse(s)) = s for every canonical string s, and
\* parse(Display(p)) = p for every Pattern value p.
C15_DisplayParseInverse ==
    /\ (Applied("Pattern::parse") /\ Canonical(arg.s)) => ret.display = arg.s
    /\ Applied("Pattern::fmt") => ret.pattern = arg.pattern

C15_Witness ==
    /\ Applied("Pattern::fmt")
    /\ arg.pattern = PatternQuery(s_star)
    /\ ret.display = s_query_colon \o s_star
    /\ ret.pattern = PatternQuery(s_star)

StringValued(claims) == \A c \in DOMAIN claims : claims[c].t = "string"

\* e stands in str between two commas, or between a comma and an end of
\* str, or is the whole of str, and holds no comma itself
IsPiece(e, str) ==
    /\ \A k \in DOMAIN e : e[k] # ","
    /\ \E i \in 1..(Len(str) + 1) :
          /\ i + Len(e) - 1 <= Len(str)
          /\ SubSeq(str, i, i + Len(e) - 1) = e
          /\ (i = 1 \/ str[i - 1] = ",")
          /\ (i + Len(e) - 1 = Len(str) \/ str[i + Len(e)] = ",")

\* C16: on claims whose values are JSON strings, ClaimPresent{c} matches iff
\* c is a key of the claims, ClaimEquals{c, v} iff c is present and its value
\* equals v, ClaimIncludes{c, e} iff c is present and e equals one of the
\* pieces of the value split on "," without trimming ("user,admin" includes
\* "admin", "user, admin" does not); Any always matches.
C16_AttributeOnStringClaims ==
    (Applied("MatchAttribute::matches") /\ StringValued(arg.claims))
    => LET a == arg.attr
           present == a.claim \in DOMAIN arg.claims
       IN  /\ ret.matches \in {T, F}
           /\ a.kind = "Any" => ret.matches = T
           /\ a.kind = "ClaimPresent" => (ret.matches = T <=> present)
           /\ a.kind = "ClaimEquals"
              => (ret.matches = T <=> (present /\ arg.claims[a.claim].s = a.value))
           /\ a.kind = "ClaimIncludes"
              => (ret.matches = T <=> (present /\ IsPiece(a.value, arg.claims[a.claim].s)))

C16_Witness ==
    /\ Applied("MatchAttribute::matches")
    /\ arg.attr = ClaimIncludes("roles", s_admin)
    /\ arg.claims = claims_spaced
    /\ ret.matches = F

C21_KeySourceGivesKeyOrFails ==
    ((Applied("Listener::new") \/ Applied("Proxy::new"))
     /\ arg.config.jwt_signing_key_source.kind # "None")
    => /\ ret.listener.built
          => (ret.listener.secret_key_bytes.some /\ ret.listener.secret_key_bytes.bytes # <<>>)
       /\ ~GetSecretKeyBytes(arg.config.jwt_signing_key_source, arg.named).ok
          => ~ret.listener.built

\* C22: ClaimEquals and ClaimIncludes return false, without raising an error
\* or aborting the handler, whenever the claim key is absent or the claim's
\* value is not a JSON string (number, boolean, array, object, null).
C22_NonStringClaimIsFalse ==
    (/\ Applied("MatchAttribute::matches")
     /\ arg.attr.kind \in {"ClaimEquals", "ClaimIncludes"}
     /\ \/ arg.attr.claim \notin DOMAIN arg.claims
        \/ arg.claims[arg.attr.claim].t # "string")
    => ret.matches = F

\* The places of a document where a Field named name stands directly in the
\* root selection set of an operation
RootFields(document, name) ==
    {place \in UNION {{<<d, i>> : i \in DOMAIN document[d].items} : d \in DOMAIN document} :
        /\ document[place[1]].kind \in {"Query", "SelectionSet", "Mutation", "Subscription"}
        /\ document[place[1]].items[place[2]] = Field(name)}

RootFieldNames == {s_hero, s_createHero, s_schema}

\* C26: the FieldCounts of a document that parses map every top-level field
\* name to the number of Fields of that name standing directly in the root
\* selection set of any operation of the document, mutations included, and
\* hold no other name.
C26_CountsAllOperations ==
    Applied("count_top_level_fields")
    => /\ DOMAIN ret.counts = {n \in RootFieldNames : RootFields(arg.document, n) # {}}
       /\ \A n \in DOMAIN ret.counts :
             ret.counts[n] = Cardinality(RootFields(arg.document, n))

(***************************************************************************)
(* Properties of Spec                                                      *)
(***************************************************************************)
Has(hist, event) == \E i \in DOMAIN hist : hist[i] = event

\* The events stand in hist in the given order (each at most once per handler)
RECURSIVE InOrder(_, _)
InOrder(hist, events) ==
    IF events = <<>> THEN TRUE
    ELSE /\ Has(hist, Head(events))
         /\ LET i == CHOOSE j \in DOMAIN hist : hist[j] = Head(events)
            IN  InOrder(SubSeq(hist, i + 1, Len(hist)), Tail(events))

HasKey == context.secret_key_bytes = "Some"
Called(h) == handlers[h].pc \notin {"idle", "accepted"}

\* The token of a request whose Authorization header is "Bearer " and a token
BearerToken(req) ==
    SubSeq(req.headers["authorization"], Len(s_Bearer) + 1, Len(req.headers["authorization"]))

ValidBearer(req) ==
    /\ "authorization" \in DOMAIN req.headers
    /\ StartsWith(req.headers["authorization"], s_Bearer)
    /\ Decode(BearerToken(req)).ok
    /\ Decode(BearerToken(req)).object

\* C6: without a signing key the PDP is still evaluated for every POST, on
\* (empty claims, document): the POST goes upstream only if PDP.allows is
\* true, and a PDP deny yields 401 and no upstream request.
C6_NoKeyStillAuthorizes ==
    \A h \in Handlers :
        LET hd == handlers[h]
            allows == PdpAllows(context.pdp, Request(<<>>, hd.document))
        IN  (~HasKey /\ hd.req.method = "POST" /\ Has(hd.hist, "parsed"))
            => /\ Has(hd.hist, "upstream") => allows = T
               /\ (allows = F /\ hd.pc \in {"forward", "upstream", "done", "error"})
                  => hd.response = Halt(UNAUTHORIZED) /\ ~Has(hd.hist, "upstream")

\* C7: with a signing key, a POST goes upstream only after, in this order,
\* the bearer token was validated, the body was drained and parsed, and
\* PDP.allows returned true for (validated claims, document); when PDP.allows
\* returns false the response is 401 and nothing goes upstream.
C7_ForwardOnlyAfterPermit ==
    \A h \in Handlers :
        LET hd == handlers[h]
            allows == PdpAllows(context.pdp, Request(hd.claims.map, hd.document))
        IN  (HasKey /\ hd.req.method = "POST")
            => /\ Has(hd.hist, "upstream")
                  => /\ InOrder(hd.hist, <<"token_valid", "body_drained", "parsed",
                                           "pdp_permit", "upstream">>)
                     /\ ValidBearer(hd.req)
                     /\ hd.claims = Some(Decode(BearerToken(hd.req)).map)
                     /\ hd.document = hd.req.body.document
                     /\ allows = T
               /\ (Has(hd.hist, "parsed") /\ allows = F
                   /\ hd.pc \in {"forward", "upstream", "done", "error"})
                  => /\ hd.pc = "done"
                     /\ hd.response = Halt(UNAUTHORIZED)
                     /\ Has(hd.hist, "pdp_deny")
                     /\ ~Has(hd.hist, "upstream")

C7_Witness ==
    \E h \in Handlers :
        /\ HasKey
        /\ context.pdp = <<user_policy, admin_policy>>
        /\ handlers[h].req.method = "POST"
        /\ handlers[h].claims = Some(claims_user)
        /\ handlers[h].hist = <<"token_valid", "body_drained", "parsed", "sink_write",
                                "pdp_permit", "upstream">>
        /\ handlers[h].response = UpstreamResponse
        /\ \E g \in Handlers :
               /\ handlers[g].document = doc_schema
               /\ Has(handlers[g].hist, "pdp_deny")
               /\ handlers[g].response = Halt(UNAUTHORIZED)

\* C8: with a signing key, a request without Authorization header gets 401
\* before the body is read or parsed and before anything goes upstream or to
\* the telemetry sink.
C8_MissingHeader401 ==
    \A h \in Handlers :
        (HasKey /\ Called(h) /\ "authorization" \notin DOMAIN handlers[h].req.headers)
        => /\ handlers[h].pc = "done"
           /\ handlers[h].response = Halt(UNAUTHORIZED)
           /\ handlers[h].hist = <<>>

C8_Witness ==
    \E h \in Handlers :
        /\ HasKey
        /\ context.influx_db_backend = "Some"
        /\ handlers[h].req.method = "POST"
        /\ handlers[h].req.body = GraphqlBody(doc_hero)
        /\ "authorization" \notin DOMAIN handlers[h].req.headers
        /\ handlers[h].pc = "done"
        /\ handlers[h].response = Halt(UNAUTHORIZED)

\* C9: with a signing key, token validation yields claims only when the
\* header is present, begins with exactly "Bearer ", the rest verifies as an
\* HS256 JWT under the key and its payload is a JSON object, which then is
\* the Claims; in every other case the response is 401.
C9_ClaimsOnlyFromValidBearer ==
    \A h \in Handlers :
        LET hd == handlers[h]
        IN  (HasKey /\ Called(h))
            => /\ hd.claims.some <=> ValidBearer(hd.req)
               /\ ValidBearer(hd.req) => hd.claims.map = Decode(BearerToken(hd.req)).map
               /\ ~ValidBearer(hd.req)
                  => /\ hd.pc = "done"
                     /\ hd.response = Halt(UNAUTHORIZED)
                     /\ hd.hist = <<>>

C9_Witness ==
    /\ HasKey
    /\ \E h \in Handlers :
           /\ "authorization" \in DOMAIN handlers[h].req.headers
           /\ handlers[h].req.headers["authorization"] = s_bearer \o tok_user
           /\ handlers[h].response = Halt(UNAUTHORIZED)
    /\ \E h \in Handlers :
           /\ "authorization" \in DOMAIN handlers[h].req.headers
           /\ handlers[h].req.headers["authorization"] = s_Bearer \o tok_admin
           /\ handlers[h].claims = Some(claims_admin)
           /\ Has(handlers[h].hist, "token_valid")

\* C10: FieldCounts reach the telemetry sink only after the PDP has permitted
\* the request: no POST that the PDP denies, or that fails authentication or
\* parsing, causes a write to the sink.
C10_SinkOnlyAfterPermit ==
    \A h \in Handlers :
        LET hd == handlers[h]
        IN  (hd.req.method = "POST"
             /\ (Has(hd.hist, "pdp_deny")
                 \/ hd.response \in {Halt(UNAUTHORIZED), Halt(BAD_REQUEST)}))
            => ~Has(hd.hist, "sink_write")

\* C17 as stated: a request whose HTTP method is neither GET nor POST ends
\* rejected with status 405 and is never forwarded upstream.
C17_OtherMethod405 ==
    \A h \in Handlers :
        LET hd == handlers[h]
        IN  (Called(h) /\ hd.req.method \notin {"GET", "POST"})
            => /\ hd.pc = "done"
               /\ hd.response = Halt(405)
               /\ ~Has(hd.hist, "upstream")

\* C17, amended: a request whose HTTP method is neither GET nor POST is
\* answered by the proxy with status 404, or with 401 when a signing key is
\* configured and the request carries no valid bearer token, and is never
\* forwarded upstream.
C17_OtherMethodNotFound ==
    \A h \in Handlers :
        LET hd == handlers[h]
        IN  (Called(h) /\ hd.req.method \notin {"GET", "POST"})
            => /\ hd.pc = "done"
               /\ hd.response = IF HasKey /\ ~ValidBearer(hd.req)
                                 THEN Halt(UNAUTHORIZED)
                                 ELSE Halt(NOT_FOUND)
               /\ ~Has(hd.hist, "upstream")

C17_Witness ==
    \E h \in Handlers :
        /\ handlers[h].req.method = "PUT"
        /\ HasKey
        /\ ValidBearer(handlers[h].req)
        /\ handlers[h].pc = "done"
        /\ handlers[h].response = Halt(NOT_FOUND)

PdpAsked(hist) == Has(hist, "pdp_permit") \/ Has(hist, "pdp_deny") \/ Has(hist, "pdp_panic")

\* The body is no GraphQL text that parses, or not in the form that the
\* content type announces
BadBody(content_type, body) ==
    \/ body.document = NoDocument
    \/ content_type = "application/json" /\ body.shape # "json"
    \/ content_type # "application/json" /\ body.shape # "graphql"

\* What becomes of a POST whose body cannot be turned into a document
Rejected400(hd) ==
    /\ hd.pc \in {"parse", "done"}
    /\ hd.pc = "done" => hd.response = Halt(BAD_REQUEST)
    /\ ~Has(hd.hist, "parsed")
    /\ ~PdpAsked(hd.hist)
    /\ ~Has(hd.hist, "upstream")

\* What becomes of a POST whose body is parsed as application/graphql
ParsedAsGraphql(hd) ==
    (hd.req.body.shape = "graphql" /\ hd.req.body.document # NoDocument /\ hd.pc # "parse")
    => (Has(hd.hist, "parsed") /\ hd.document = hd.req.body.document)

C19_UpstreamFailure502 ==
    \A h \in Handlers :
        LET hd == handlers[h]
        IN  (Has(hd.hist, "upstream") /\ hd.pc # "upstream")
            => /\ hd.pc = "done"
               /\ hd.response \in {UpstreamResponse, Halt(502)}

\* C20: a failure of the telemetry sink write never changes the outcome of
\* the request: the handler of a POST whose sink write failed neither aborts
\* nor returns an error because of it, and its response is the response of
\* the same POST when the write succeeds.
C20_SinkFailureHarmless ==
    \A h \in Handlers :
        LET hd == handlers[h]
        IN  Has(hd.hist, "sink_failed")
            => /\ hd.pc \notin {"panicked", "error"}
               /\ \A g \in Handlers :
                     (/\ handlers[g].req = hd.req
                      /\ Has(handlers[g].hist, "sink_write")
                      /\ handlers[g].pc = "done"
                      /\ hd.pc = "done")
                     => handlers[g].response = hd.response

\* The outcome of a request: forwarded upstream, or answered by the proxy
\* with 401, 400 or 404; "none" while it is undecided
Outcome(hd) ==
    IF Has(hd.hist, "upstream") THEN "forwarded"
    ELSE IF hd.pc # "done" THEN "none"
    ELSE IF hd.response = Halt(UNAUTHORIZED) THEN "401"
    ELSE IF hd.response = Halt(BAD_REQUEST) THEN "400"
    ELSE IF hd.response = Halt(NOT_FOUND) THEN "404"
    ELSE "none"

\* Two handlers that were given the same request have the same outcome
SameRequestSameOutcome ==
    \A h, g \in Handlers :
        (/\ handlers[h].req = handlers[g].req
         /\ Outcome(handlers[h]) # "none"
         /\ Outcome(handlers[g]) # "none")
        => Outcome(handlers[h]) = Outcome(handlers[g])

\* A step leaves the context alone and changes one handler at most
StepOfOneHandler ==
    /\ context' = context
    /\ \A h \in Handlers :
          handlers'[h] # handlers[h]
          => \A g \in Handlers \ {h} : handlers'[g] = handlers[g]

C30_GetForwardedNeverEvaluated ==
    \A h \in Handlers :
        LET hd == handlers[h]
        IN  (Called(h) /\ hd.req.method = "GET" /\ (HasKey => ValidBearer(hd.req)))
            => /\ Has(hd.hist, "upstream")
               /\ ~PdpAsked(hd.hist)
               /\ ~Has(hd.hist, "parsed")

====
